---- MODULE Spec2Model ----
(***************************************************************************)
(* Model of johnsnow_dashboard_app.py: one Streamlit script that loads two *)
(* GeoJSON tables through a cached loader, attaches the nearest pump to    *)
(* every death row and renders three tabs.  A behaviour is a sequence of   *)
(* script runs (Streamlit reruns the whole script on every interaction).   *)
(***************************************************************************)
EXTENDS Integers, Sequences, FiniteSets, TLC

VARIABLES deathsFile, pumpsFile, geosPick, filterValue, cache, pc, runs,
          loaded, deaths, pumps, death_col, center, heat_data, fg_deaths,
          fg_pumps, fg_spider, deaths_3d, ui

vars == <<deathsFile, pumpsFile, geosPick, filterValue, cache, pc, runs,
          loaded, deaths, pumps, death_col, center, heat_data, fg_deaths,
          fg_pumps, fg_spider, deaths_3d, ui>>

(***************************************************************************)
(* Bounds of the model.                                                    *)
(***************************************************************************)
MaxLon == 1
MaxLat == 2
MaxCount == 2
MaxID == 2
MaxDeaths == 1
MaxPumps == 2
MaxRuns == 2
MaxFilter == 2

(***************************************************************************)
(* Cell values.  t is the Python type of the value:                        *)
(*   "int"    the integer n                                                *)
(*   "float"  the float n/2 (values are kept in halves)                    *)
(*   "digits" the string that spells the integer n in decimal              *)
(*   "text"   a string that spells no number (n tells the strings apart)   *)
(*   "null"   a missing value, "nan" the float NaN                         *)
(***************************************************************************)
IntV(k) == [t |-> "int", n |-> k]
FloatV(h) == [t |-> "float", n |-> h]
DigitsV(k) == [t |-> "digits", n |-> k]
TextNA == [t |-> "text", n |-> 1]
TextEmpty == [t |-> "text", n |-> 0]
TextWord == [t |-> "text", n |-> 2]
NullV == [t |-> "null", n |-> 0]
NaNV == [t |-> "nan", n |-> 0]

\* pd.to_numeric(..., errors="coerce") on one cell: numbers and numeric
\* strings become a float (in halves), everything else NaN.
ToNumeric(v) ==
    CASE v.t = "int" -> FloatV(2 * v.n)
      [] v.t = "float" -> v
      [] v.t = "digits" -> FloatV(2 * v.n)
      [] OTHER -> NaNV

\* .fillna(0) on one cell.
FillNa0(v) == IF v.t = "nan" THEN FloatV(0) ELSE v

\* .astype(int) on one float cell: truncation towards zero.
AsTypeInt(v) ==
    IF v.n >= 0 THEN IntV(v.n \div 2) ELSE IntV(-((-v.n) \div 2))

\* Line 79 on one cell.
CoerceCount(v) == AsTypeInt(FillNa0(ToNumeric(v)))

\* str(x) of a cell value.
Str(v) ==
    CASE v.t = "int" -> DigitsV(v.n)
      [] OTHER -> v

(***************************************************************************)
(* Coordinate reference systems.  A point is <<x, y>>.  In EPSG:4326 x is  *)
(* the longitude and y the latitude, both in steps of 15 degrees.  In      *)
(* EPSG:3857 x is linear in the longitude and y is the Mercator ordinate   *)
(* (180/pi) * ln(tan(45 + lat/2)), rounded, for 0, 15, ..., 75 degrees.    *)
(***************************************************************************)
LonScale == 15
MercY == <<0, 15, 31, 50, 75, 116>>

To3857(p) == <<p[1] * LonScale, MercY[p[2] + 1]>>
To4326(p) == <<p[1] \div LonScale,
               (CHOOSE i \in 1..Len(MercY) : MercY[i] = p[2]) - 1>>

Reproject(from, to, p) ==
    IF from = to THEN p
    ELSE IF to = "EPSG:3857" THEN To3857(p) ELSE To4326(p)

(***************************************************************************)
(* Tables (GeoDataFrames): a reference, the attribute column names in      *)
(* order, and rows of a geometry plus one value per column.                *)
(***************************************************************************)
EmptyTable == [crs |-> "none", cols |-> <<>>, rows |-> <<>>]

HasCol(tbl, c) == \E i \in 1..Len(tbl.cols) : tbl.cols[i] = c
ColIdx(tbl, c) == CHOOSE i \in 1..Len(tbl.cols) :
                      tbl.cols[i] = c /\ \A j \in 1..(i - 1) : tbl.cols[j] # c

\* row[c]
Cell(tbl, i, c) == tbl.rows[i].vals[ColIdx(tbl, c)]
\* row.get(c, default)
RowGet(tbl, i, c, default) == IF HasCol(tbl, c) THEN Cell(tbl, i, c) ELSE default

\* GeoDataFrame.to_crs(target) of a table that has a reference.
ToCrs(tbl, target) ==
    [tbl EXCEPT !.crs = target,
                !.rows = [i \in 1..Len(tbl.rows) |->
                    [tbl.rows[i] EXCEPT !.geom = Reproject(tbl.crs, target, @)]]]

\* df[c] = values : overwrite the column when it exists, append it otherwise.
SetColumn(tbl, c, values) ==
    IF HasCol(tbl, c)
    THEN [tbl EXCEPT !.rows = [i \in 1..Len(tbl.rows) |->
              [tbl.rows[i] EXCEPT !.vals[ColIdx(tbl, c)] = values[i]]]]
    ELSE [tbl EXCEPT !.cols = Append(@, c),
                     !.rows = [i \in 1..Len(tbl.rows) |->
              [tbl.rows[i] EXCEPT !.vals = Append(@, values[i])]]]

(***************************************************************************)
(* load_vectors (lines 67-86), the uncached body.                          *)
(***************************************************************************)
NoneLoaded == [none |-> TRUE, deaths |-> EmptyTable, pumps |-> EmptyTable,
               death_col |-> ""]

\* Variant of SelectDeathCol that tests 'Count' before 'deaths'.
SelectDeathCol_CountFirst(tbl) ==
    IF HasCol(tbl, "Count") THEN "Count"
    ELSE IF HasCol(tbl, "deaths") THEN "deaths"
    ELSE ""

\* Lines 71-77: the name of the death-count column, "" when there is none.
SelectDeathCol(tbl) ==
    IF HasCol(tbl, "deaths") THEN "deaths"
    ELSE IF HasCol(tbl, "Count") THEN "Count"
    ELSE ""

\* Lines 81-84.
NormaliseCrs(tbl) ==
    IF tbl.crs # "none" /\ tbl.crs # "EPSG:4326" THEN ToCrs(tbl, "EPSG:4326")
    ELSE tbl

load_vectors(dfile, pfile) ==
    LET dc == SelectDeathCol(dfile)
    IN IF dc = "" THEN NoneLoaded
       ELSE LET coerced == SetColumn(dfile, dc,
                    [i \in 1..Len(dfile.rows) |-> CoerceCount(Cell(dfile, i, dc))])
            IN [none |-> FALSE,
                deaths |-> NormaliseCrs(coerced),
                pumps |-> NormaliseCrs(pfile),
                death_col |-> dc]

\* st.error calls made inside load_vectors; st.cache_data records them with
\* the result and replays them on a cache hit.
LoadMessages(dfile) ==
    IF SelectDeathCol(dfile) = "" THEN <<"No deaths field found.">> ELSE <<>>

(***************************************************************************)
(* st.cache_data (line 66).  The entry holds a pickled snapshot of the     *)
(* returned value; every call hands out a value of its own.                *)
(***************************************************************************)
NoCache == [hit |-> FALSE, value |-> NoneLoaded, msgs |-> <<>>]

\* Variant of CacheAfterMutation for a cache that hands out the object it
\* holds (st.cache_resource): the entry moves with the caller's table.
CacheAfterMutation_Shared(c, mutated) == [c EXCEPT !.value.deaths = mutated]

\* The cache entry after the caller has changed, in place, the table it was
\* handed: the pickled snapshot does not move.
CacheAfterMutation(c, mutated) == c

(***************************************************************************)
(* add_nearest_pump_analysis (lines 98-119).                               *)
(***************************************************************************)
\* The float sqrt(n), kept as n: Point.distance is the Euclidean distance.
SqrtV(n) == [t |-> "sqrt", n |-> n]

Dist2(p, q) == (p[1] - q[1]) * (p[1] - q[1]) + (p[2] - q[2]) * (p[2] - q[2])

MinOf(S) == CHOOSE m \in S : \A k \in S : m <= k
MaxOf(S) == CHOOSE m \in S : \A k \in S : m >= k

\* Line 108: nearest_points(point, pump_geoms.unary_union)[1].  Which of
\* several equidistant pump locations GEOS returns is fixed by the build
\* (pick), not by the script.
NearestGeom(point, pgeoms, pick) ==
    LET best == MinOf({Dist2(point, pgeoms[j]) : j \in 1..Len(pgeoms)})
        M == {j \in 1..Len(pgeoms) : Dist2(point, pgeoms[j]) = best}
    IN pgeoms[IF pick = "first" THEN MinOf(M) ELSE MaxOf(M)]

\* Variant of PumpRowOf that takes the last matching row (iloc[-1]).
PumpRowOf_Last(pgeoms, g) == MaxOf({j \in 1..Len(pgeoms) : pgeoms[j] = g})

\* Lines 109, 111: the first row of pumps_proj whose geometry is nearest_geom.
PumpRowOf(pgeoms, g) == MinOf({j \in 1..Len(pgeoms) : pgeoms[j] = g})

\* Lines 99, 100, 108: to_crs of a table without reference raises, and so
\* does nearest_points against the union of no pumps.
AnalysisRaises(d, p) ==
    \/ d.crs = "none"
    \/ p.crs = "none"
    \/ (Len(d.rows) > 0 /\ Len(p.rows) = 0)

add_nearest_pump_analysis(d, p, pick) ==
    LET dproj == ToCrs(d, "EPSG:3857")
        pproj == ToCrs(p, "EPSG:3857")
        pgeoms == [j \in 1..Len(pproj.rows) |-> pproj.rows[j].geom]
        ng(i) == NearestGeom(dproj.rows[i].geom, pgeoms, pick)
        nearest_ids == [i \in 1..Len(dproj.rows) |->
                           RowGet(pproj, PumpRowOf(pgeoms, ng(i)), "ID", TextNA)]
        nearest_dist == [i \in 1..Len(dproj.rows) |->
                           SqrtV(Dist2(dproj.rows[i].geom, ng(i)))]
    IN SetColumn(SetColumn(d, "nearest_pump_id", nearest_ids),
                 "distance_to_pump_m", nearest_dist)

(***************************************************************************)
(* The tabs (lines 170-352).                                               *)
(***************************************************************************)
RECURSIVE SumSeq(_)
SumSeq(s) == IF s = <<>> THEN 0 ELSE Head(s) + SumSeq(Tail(s))

NoCenter == [nan |-> TRUE, latSum |-> 0, lonSum |-> 0, n |-> 0]

\* Lines 178-179: the mean of no latitudes is NaN; otherwise sum / n.
CenterOf(d) ==
    IF Len(d.rows) = 0 THEN NoCenter
    ELSE [nan |-> FALSE,
          latSum |-> SumSeq([i \in 1..Len(d.rows) |-> d.rows[i].geom[2]]),
          lonSum |-> SumSeq([i \in 1..Len(d.rows) |-> d.rows[i].geom[1]]),
          n |-> Len(d.rows)]

\* [row.geometry.y, row.geometry.x]
LatLon(row) == <<row.geom[2], row.geom[1]>>

\* Line 187.
HeatData(d, dc) == [i \in 1..Len(d.rows) |->
                       <<d.rows[i].geom[2], d.rows[i].geom[1], Cell(d, i, dc)>>]

\* Lines 190-198: one circle marker per death row (radius in tenths).
DeathMarkers1(d, dc) ==
    [i \in 1..Len(d.rows) |->
        [pos |-> LatLon(d.rows[i]),
         radius |-> 40 + 3 * Cell(d, i, dc).n,
         count |-> Cell(d, i, dc),
         nearest |-> Cell(d, i, "nearest_pump_id"),
         dist |-> Cell(d, i, "distance_to_pump_m")]]

\* Lines 200-205 and 237-242: one marker per pump row.
PumpMarkers(p) ==
    [j \in 1..Len(p.rows) |->
        [pos |-> LatLon(p.rows[j]), id |-> RowGet(p, j, "ID", TextNA)]]

\* Lines 234-235: a dict comprehension, the last row of a key wins.
PumpLookup(p) ==
    LET key(j) == Str(RowGet(p, j, "ID", TextEmpty))
    IN [k \in {key(j) : j \in 1..Len(p.rows)} |->
           LatLon(p.rows[MaxOf({j \in 1..Len(p.rows) : key(j) = k})])]

\* Lines 244-255: one circle marker per death row.
DeathMarkers2(d, dc) ==
    [i \in 1..Len(d.rows) |->
        [pos |-> LatLon(d.rows[i]),
         radius |-> 40,
         count |-> Cell(d, i, dc),
         nearest |-> Str(Cell(d, i, "nearest_pump_id")),
         dist |-> Cell(d, i, "distance_to_pump_m")]]

\* Lines 244-260: the poly-lines drawn, in row order; a row whose
\* nearest_id is no key of pump_lookup draws none.
RECURSIVE SpiderFrom(_, _, _)
SpiderFrom(d, lookup, i) ==
    IF i > Len(d.rows) THEN <<>>
    ELSE LET nearest_id == Str(Cell(d, i, "nearest_pump_id"))
             rest == SpiderFrom(d, lookup, i + 1)
         IN IF nearest_id \in DOMAIN lookup
            THEN <<[from |-> LatLon(d.rows[i]), to |-> lookup[nearest_id]]>> \o rest
            ELSE rest

SpiderLines(d, p) == SpiderFrom(d, PumpLookup(p), 1)

\* Lines 283-286.
Deaths3D(d, dc) ==
    LET n == Len(d.rows)
        withLat == SetColumn(d, "lat", [i \in 1..n |-> IntV(d.rows[i].geom[2])])
        withLon == SetColumn(withLat, "lon", [i \in 1..n |-> IntV(d.rows[i].geom[1])])
    IN SetColumn(withLon, "height", [i \in 1..n |-> IntV(Cell(d, i, dc).n * 8)])

(***************************************************************************)
(* Input files.                                                            *)
(***************************************************************************)
Positions == (0..MaxLon) \X (0..MaxLat)
AllCrs == {"EPSG:4326", "EPSG:3857", "none"}

\* The coordinates a file in reference c stores for the place p (lon, lat).
FileGeom(c, p) == IF c = "EPSG:3857" THEN To3857(p) ELSE p

\* Contents of a death-count field: whole numbers, fractions, numeric
\* strings, other text, missing.
\* The death counts a user can settle on; 0 stands for no selection.  The
\* script has no control for it and reads it nowhere.
SelectableFilters == 0..MaxFilter

RawVals ==
    {IntV(k) : k \in (-MaxCount)..MaxCount}
    \cup {FloatV(h) : h \in {x \in (-2 * MaxCount + 1)..(2 * MaxCount - 1) : x % 2 = 1}}
    \cup {DigitsV(MaxCount), TextWord, NullV}

SeqsUpTo(S, n) == UNION {[1..k -> S] : k \in 0..n}

\* Death tables: every attribute column of a row holds the row's raw value.
DeathTables(colsets, crss, poss, rawvals, maxRows) ==
    {[crs |-> c, cols |-> cs,
      rows |-> [i \in 1..Len(r) |->
                   [geom |-> FileGeom(c, r[i][1]),
                    vals |-> [j \in 1..Len(cs) |-> r[i][2]]]]] :
        c \in crss, cs \in colsets, r \in SeqsUpTo(poss \X rawvals, maxRows)}

PumpTables(colsets, crss, poss, ids, maxRows) ==
    {[crs |-> c, cols |-> cs,
      rows |-> [j \in 1..Len(r) |->
                   [geom |-> FileGeom(c, r[j][1]),
                    vals |-> [k \in 1..Len(cs) |-> IntV(r[j][2])]]]] :
        c \in crss, cs \in colsets, r \in SeqsUpTo(poss \X ids, maxRows)}

(***************************************************************************)
(* The script, one action per block of module-level code.                  *)
(***************************************************************************)
\* State of a run before its first line.
FreshRun ==
    /\ pc = "start"
    /\ loaded = NoneLoaded
    /\ deaths = EmptyTable
    /\ pumps = EmptyTable
    /\ death_col = ""
    /\ center = NoCenter
    /\ heat_data = <<>>
    /\ fg_deaths = <<>>
    /\ fg_pumps = <<>>
    /\ fg_spider = <<>>
    /\ deaths_3d = EmptyTable
    /\ ui = <<>>

InitRest ==
    /\ filterValue = 0
    /\ cache = NoCache
    /\ runs = 1
    /\ FreshRun

\* Line 88: the call through st.cache_data.
LoadVectors ==
    /\ pc = "start"
    /\ IF cache.hit
       THEN /\ loaded' = cache.value
            /\ ui' = ui \o cache.msgs
            /\ UNCHANGED cache
       ELSE /\ loaded' = load_vectors(deathsFile, pumpsFile)
            /\ ui' = ui \o LoadMessages(deathsFile)
            /\ cache' = [hit |-> TRUE,
                         value |-> load_vectors(deathsFile, pumpsFile),
                         msgs |-> LoadMessages(deathsFile)]
    /\ pc' = "called"
    /\ UNCHANGED <<deathsFile, pumpsFile, geosPick, filterValue, runs, deaths,
                   pumps, death_col, center, heat_data, fg_deaths, fg_pumps,
                   fg_spider, deaths_3d>>

\* Lines 89-92: st.stop() on None, otherwise unpack.
CheckLoaded ==
    /\ pc = "called"
    /\ IF loaded.none
       THEN /\ pc' = "stopped"
            /\ UNCHANGED <<deaths, pumps, death_col>>
       ELSE /\ pc' = "loaded"
            /\ deaths' = loaded.deaths
            /\ pumps' = loaded.pumps
            /\ death_col' = loaded.death_col
    /\ UNCHANGED <<deathsFile, pumpsFile, geosPick, filterValue, cache, runs,
                   loaded, center, heat_data, fg_deaths, fg_pumps, fg_spider,
                   deaths_3d, ui>>

\* Line 121.  The columns are assigned on the table load_vectors returned.
NearestPumpAnalysis ==
    /\ pc = "loaded"
    /\ IF AnalysisRaises(deaths, pumps)
       THEN /\ pc' = "aborted"
            /\ ui' = Append(ui, "ValueError")
            /\ UNCHANGED <<deaths, cache>>
       ELSE /\ pc' = "analysed"
            /\ deaths' = add_nearest_pump_analysis(deaths, pumps, geosPick)
            /\ cache' = CacheAfterMutation(cache,
                            add_nearest_pump_analysis(deaths, pumps, geosPick))
            /\ UNCHANGED ui
    /\ UNCHANGED <<deathsFile, pumpsFile, geosPick, filterValue, runs, loaded,
                   pumps, death_col, center, heat_data, fg_deaths, fg_pumps,
                   fg_spider, deaths_3d>>

\* Lines 127-164: page config, title, overview, image, tabs.
Header ==
    /\ pc = "analysed"
    /\ pc' = "header"
    /\ UNCHANGED <<deathsFile, pumpsFile, geosPick, filterValue, cache, runs,
                   loaded, deaths, pumps, death_col, center, heat_data,
                   fg_deaths, fg_pumps, fg_spider, deaths_3d, ui>>

\* Lines 170-214.  folium.Map rejects a location that contains NaN.
Tab1 ==
    /\ pc = "header"
    /\ center' = CenterOf(deaths)
    /\ IF CenterOf(deaths).nan
       THEN /\ pc' = "aborted"
            /\ ui' = Append(ui, "ValueError")
            /\ UNCHANGED <<heat_data, fg_deaths, fg_pumps>>
       ELSE /\ pc' = "tab1"
            /\ heat_data' = HeatData(deaths, death_col)
            /\ fg_deaths' = DeathMarkers1(deaths, death_col)
            /\ fg_pumps' = PumpMarkers(pumps)
            /\ UNCHANGED ui
    /\ UNCHANGED <<deathsFile, pumpsFile, geosPick, filterValue, cache, runs,
                   loaded, deaths, pumps, death_col, fg_spider, deaths_3d>>

\* Lines 220-267.
Tab2 ==
    /\ pc = "tab1"
    /\ pc' = "tab2"
    /\ fg_pumps' = PumpMarkers(pumps)
    /\ fg_deaths' = DeathMarkers2(deaths, death_col)
    /\ fg_spider' = SpiderLines(deaths, pumps)
    /\ UNCHANGED <<deathsFile, pumpsFile, geosPick, filterValue, cache, runs,
                   loaded, deaths, pumps, death_col, center, heat_data,
                   deaths_3d, ui>>

\* Lines 273-352.
Tab3 ==
    /\ pc = "tab2"
    /\ pc' = "done"
    /\ deaths_3d' = Deaths3D(deaths, death_col)
    /\ UNCHANGED <<deathsFile, pumpsFile, geosPick, filterValue, cache, runs,
                   loaded, deaths, pumps, death_col, center, heat_data,
                   fg_deaths, fg_pumps, fg_spider, ui>>

\* A user interaction: Streamlit runs the script again from its first line;
\* only the st.cache_data entry survives.  The user also settles on the
\* death count they want to see.
Rerun ==
    /\ pc \in {"done", "stopped", "aborted"}
    /\ runs < MaxRuns
    /\ runs' = runs + 1
    /\ \E f \in SelectableFilters : filterValue' = f
    /\ pc' = "start"
    /\ loaded' = NoneLoaded
    /\ deaths' = EmptyTable
    /\ pumps' = EmptyTable
    /\ death_col' = ""
    /\ center' = NoCenter
    /\ heat_data' = <<>>
    /\ fg_deaths' = <<>>
    /\ fg_pumps' = <<>>
    /\ fg_spider' = <<>>
    /\ deaths_3d' = EmptyTable
    /\ ui' = <<>>
    /\ UNCHANGED <<deathsFile, pumpsFile, geosPick, cache>>

\* One run of the script, from its first line to its end, stop or error.
NextRun ==
    \/ LoadVectors
    \/ CheckLoaded
    \/ NearestPumpAnalysis
    \/ Header
    \/ Tab1
    \/ Tab2
    \/ Tab3

Next ==
    \/ NextRun
    \/ Rerun

(***************************************************************************)
(* Specifications: the same script over three families of input files.     *)
(***************************************************************************)
\* Whole runs and reruns over small files of every shape.
RunColSets == {<<>>, <<"deaths">>, <<"Count">>}
RunPositions == {<<0, 0>>, <<MaxLon, MaxLat>>}
RunVals == {IntV(1), IntV(MaxCount), TextWord}
RunMaxDeaths == 2

Init ==
    /\ deathsFile \in DeathTables(RunColSets, AllCrs, RunPositions, RunVals,
                                  RunMaxDeaths)
    /\ pumpsFile \in PumpTables({<<>>, <<"ID">>}, {"EPSG:4326", "none"},
                                RunPositions, 1..MaxID, 1)
    /\ geosPick = "first"
    /\ InitRest

Spec == Init /\ [][Next]_vars

\* Every content of the death-count field, every column layout, every
\* pair of references.
LoadColSets == {<<>>, <<"deaths">>, <<"Count">>, <<"Deaths">>,
                <<"Count", "deaths">>, <<"deaths", "Count">>,
                <<"Deaths", "Count">>}

InitLoad ==
    /\ deathsFile \in DeathTables(LoadColSets, AllCrs, RunPositions, RawVals,
                                  MaxDeaths)
    /\ pumpsFile \in PumpTables({<<"ID">>}, AllCrs, {<<0, 0>>}, {1}, 1)
    /\ geosPick = "first"
    /\ InitRest

SpecLoad == InitLoad /\ [][Next]_vars

\* One run over every placement of up to MaxPumps pumps, with equal and
\* with different IDs, around a death; both ways GEOS may break a tie.
NearDeathPositions == {<<0, 0>>, <<0, 1>>}
NearIDs == {1, MaxID}

InitNearest ==
    /\ deathsFile \in DeathTables({<<"deaths">>}, {"EPSG:4326"},
                                  NearDeathPositions, {IntV(1)}, MaxDeaths)
    /\ pumpsFile \in PumpTables({<<>>, <<"ID">>}, {"EPSG:4326"}, Positions,
                                NearIDs, MaxPumps)
    /\ geosPick \in {"first", "last"}
    /\ InitRest

SpecNearest == InitNearest /\ [][NextRun]_vars

(***************************************************************************)
(* Properties.                                                             *)
(***************************************************************************)
AfterLoad == pc # "start"
AfterAnalysis == pc \in {"analysed", "header", "tab1", "tab2", "done"}
UniqueCols(tbl) ==
    \A i, j \in 1..Len(tbl.cols) : tbl.cols[i] = tbl.cols[j] => i = j

\* C1: every weight in heat_data (third element of an entry) is an integer
\* that is >= 0, whatever the death-count field of the file holds.
C1_HeatWeightsNonNegative ==
    \A i \in 1..Len(heat_data) :
        heat_data[i][3].t = "int" /\ heat_data[i][3].n >= 0

\* C2: a run whose deaths table has zero rows (and whose tables carry a
\* geographic reference) does not terminate with an unhandled error: it is
\* never in the aborted state.
C2_EmptyDeathsRunCompletes ==
    (/\ AfterLoad
     /\ ~loaded.none
     /\ Len(loaded.deaths.rows) = 0
     /\ loaded.deaths.crs = "EPSG:4326"
     /\ loaded.pumps.crs = "EPSG:4326")
    => pc # "aborted"

\* C3: in every run, first or rerun, load_vectors hands out the table read
\* from the unchanged files (the columns assigned in place by an earlier
\* run do not show in it), and the run's deaths table after the analysis is
\* the analysis of that table, with one column of each name.
C3_RerunsIdentical ==
    /\ AfterLoad => loaded = load_vectors(deathsFile, pumpsFile)
    /\ AfterAnalysis =>
          /\ deaths = add_nearest_pump_analysis(
                          load_vectors(deathsFile, pumpsFile).deaths,
                          load_vectors(deathsFile, pumpsFile).pumps, geosPick)
          /\ UniqueCols(deaths)
          /\ Len(deaths.cols) = Len(loaded.deaths.cols) + 2

C3_Witness ==
    /\ runs = 2
    /\ pc = "done"
    /\ Len(deaths.rows) = 2
    /\ deaths.rows[1] # deaths.rows[2]
    /\ HasCol(cache.value.deaths, death_col)

\* The distance (squared, in EPSG:3857) between death row i and pump row j
\* of tables held in EPSG:4326.
ProjDist2(d, p, i, j) ==
    Dist2(Reproject("EPSG:4326", "EPSG:3857", d.rows[i].geom),
          Reproject("EPSG:4326", "EPSG:3857", p.rows[j].geom))

MinProjDist2(d, p, i) == MinOf({ProjDist2(d, p, i, j) : j \in 1..Len(p.rows)})

\* C4: with a non-empty pump table, Tab 2 draws exactly one spider line per
\* death row, from the death to a pump at minimal distance from it.
C4_SpiderLineToNearestPump ==
    (pc \in {"tab2", "done"} /\ Len(pumps.rows) > 0) =>
        /\ Len(fg_spider) = Len(deaths.rows)
        /\ \A i \in 1..Len(fg_spider) :
              /\ fg_spider[i].from = LatLon(deaths.rows[i])
              /\ \E j \in 1..Len(pumps.rows) :
                    /\ fg_spider[i].to = LatLon(pumps.rows[j])
                    /\ ProjDist2(deaths, pumps, i, j) = MinProjDist2(deaths, pumps, i)

\* C5: whenever load_vectors returns a result, both tables are in EPSG:4326,
\* whatever the references of the two files.
C5_LoadedTablesIn4326 ==
    (AfterLoad /\ ~loaded.none) =>
        /\ loaded.deaths.crs = "EPSG:4326"
        /\ loaded.pumps.crs = "EPSG:4326"

\* The rows of d whose death count satisfies the selected value f (0: no
\* selection, every row).
FilterRows(d, dc, f) ==
    [d EXCEPT !.rows = SelectSeq(d.rows,
        LAMBDA r : f = 0 \/ r.vals[ColIdx(d, dc)].n >= f)]

\* C6: at the end of a run every layer shows exactly the death rows whose
\* count satisfies the value the user has selected.
C6_RenderedRowsMatchFilter ==
    pc = "done" =>
        /\ heat_data = HeatData(FilterRows(deaths, death_col, filterValue), death_col)
        /\ fg_deaths = DeathMarkers2(FilterRows(deaths, death_col, filterValue), death_col)
        /\ deaths_3d = Deaths3D(FilterRows(deaths, death_col, filterValue), death_col)

\* C7: after the analysis, with a non-empty pump table, distance_to_pump_m
\* of every death row is the least EPSG:3857 distance to any pump, and
\* nearest_pump_id is the ID of a pump at that distance that is the first
\* row of the pump table at its location ('N/A' without an ID column).
C7_TrueNearestPump ==
    (AfterAnalysis /\ Len(pumps.rows) > 0) =>
        \A i \in 1..Len(deaths.rows) :
            /\ Cell(deaths, i, "distance_to_pump_m")
                   = SqrtV(MinProjDist2(deaths, pumps, i))
            /\ IF HasCol(pumps, "ID")
               THEN \E j \in 1..Len(pumps.rows) :
                       /\ ProjDist2(deaths, pumps, i, j) = MinProjDist2(deaths, pumps, i)
                       /\ \A k \in 1..(j - 1) : pumps.rows[k].geom # pumps.rows[j].geom
                       /\ Cell(deaths, i, "nearest_pump_id") = Cell(pumps, j, "ID")
               ELSE Cell(deaths, i, "nearest_pump_id") = TextNA

C7_Witness ==
    /\ pc = "done"
    /\ Len(deaths.rows) = 1
    /\ Len(pumps.rows) = 2
    /\ HasCol(pumps, "ID")
    /\ pumps.rows[1].geom = pumps.rows[2].geom
    /\ Cell(pumps, 1, "ID") # Cell(pumps, 2, "ID")
    /\ Cell(deaths, 1, "distance_to_pump_m").n > 0

\* C8: load_vectors picks 'deaths' when the file has it, else 'Count'; it
\* returns None, with the one error message, exactly when the file has
\* neither; the run then stops with nothing analysed or rendered; a run
\* that renders has a death_col that is a column of its deaths table.
C8_DeathFieldSelection ==
    /\ AfterLoad =>
          (loaded.none <=> (~HasCol(deathsFile, "deaths") /\ ~HasCol(deathsFile, "Count")))
    /\ (AfterLoad /\ ~loaded.none) =>
          /\ loaded.death_col = IF HasCol(deathsFile, "deaths") THEN "deaths" ELSE "Count"
          /\ ui # <<"No deaths field found.">>
    /\ (AfterLoad /\ loaded.none) =>
          /\ ui = <<"No deaths field found.">>
          /\ pc \in {"called", "stopped"}
          /\ deaths = EmptyTable /\ heat_data = <<>> /\ fg_deaths = <<>>
          /\ fg_pumps = <<>> /\ fg_spider = <<>> /\ deaths_3d = EmptyTable
    /\ pc \in {"header", "tab1", "tab2", "done"} =>
          /\ death_col = loaded.death_col
          /\ HasCol(deaths, death_col)

C8_Witness ==
    /\ pc = "stopped"
    /\ runs = 2
    /\ HasCol(deathsFile, "Deaths")
    /\ Len(deathsFile.rows) = 1

====
